---- MODULE Spec2Model ----
(***************************************************************************)
(* Match-History-To-Trueskill: the rating engine of src/process.py with    *)
(* the leaderboard of src/output.py, and the standalone copy of the same   *)
(* engine in src/main.py.  One run is: process_game for every match of the *)
(* input, the decay pass, display_ratings.                                 *)
(*                                                                         *)
(* Numbers.  mu and sigma are floats in the source; here they are integers *)
(* (default_mu 25, default_sigma 8).  max_decay_proportion, a float in     *)
(* [0,1], is held in eighths (0..8).  Dates are day numbers; a completion  *)
(* timestamp is a number of milliseconds with MsPerDay of them in a day.   *)
(***************************************************************************)
EXTENDS Integers, Sequences, FiniteSets, TLC

VARIABLES
    variant,            \* "process": src/process.py + src/output.py; "main": src/main.py
    inputs,             \* what set_handler reads: the arguments given and the environment
    settings,           \* the GameProcessor's configuration fields
    pc,                 \* position of run(): "process", "display", "done", "crashed",
                        \* "aborted" (sys.exit)
    processed,          \* the matches process_game has been applied to, in order
    player_ratings,     \* dict canonical id -> Player, in insertion order
    primary_ids_cache,  \* dict raw id -> canonical id
    games_used_count,
    played_dates,       \* dict date -> set of raw ids
    resolved,           \* every (argument, result) of a get_primary_id call so far
    decay_calls,        \* the number of apply_decay calls of run()
    decay_log,          \* every evaluation of a player at a checkpoint of the decay pass
    filtered,           \* filtered_by_min_games, _last_days, _min_games_last_days
    cutoff_count,
    rows                \* the leaderboard rows display_ratings produced

vars == <<variant, inputs, settings, pc, processed, player_ratings, primary_ids_cache,
          games_used_count, played_dates, resolved, decay_calls, decay_log,
          filtered, cutoff_count, rows>>

-----------------------------------------------------------------------------
(* Bounds of the model *)

MaxGames == 2
MaxDay == 3
MsPerDay == 2

(* Program values *)

default_mu == 25
default_sigma == 8

None == -1

Range(s) == {s[i] : i \in 1..Len(s)}

Min(a, b) == IF a <= b THEN a ELSE b
Max(a, b) == IF a >= b THEN a ELSE b

\* datetime.now(self.timezone).date(): the run happens on the last day of the model
now_date == MaxDay

-----------------------------------------------------------------------------
(* Inputs *)

RawIds == {"a", "b", "c", "P"}

\* ALIASED_PLAYERS: canonical id -> list of secondary ids, in the order of the dict
AliasOne == << [primary |-> "P", aliases |-> <<"a", "b">>] >>
AliasChain == << [primary |-> "P", aliases |-> <<"a">>],
                 [primary |-> "Q", aliases |-> <<"P", "b">>] >>
AliasConfigs == {AliasOne, AliasChain}
\* ALIASED_PLAYERS = {}: every raw id is its own canonical id
NoAliases == <<>>

Participant(id, name, team, captain, pickOrder) ==
    [id |-> id, name |-> name, team |-> team, captain |-> captain, pickOrder |-> pickOrder]

\* the players lists of the matches: an alias against an unaliased id; two ids of
\* one canonical id on opposite teams, one of them under a new name; a canonical
\* id and one of its aliases on the same team
Lineups == <<
    << Participant("a", "Ann", 1, 1, None), Participant("c", "Cy", 2, 0, 2) >>,
    << Participant("b", "Bob", 2, 0, None), Participant("a", "Anna", 1, 0, 1) >>,
    << Participant("P", "Pat", 1, 0, 3), Participant("b", "Bob", 1, 0, 1),
       Participant("c", "Cyd", 2, 1, None) >> >>

\* the completion time of the match of players list l and outcome w: past the
\* start of a day chosen so that every list and every outcome fall on every day
Timestamp(l, w) == (((l + w) % MaxDay) + 1) * MsPerDay + 1

\* the matches of the input: every players list with every outcome (0: no winner)
Games ==
    {[completionTimestamp |-> Timestamp(l, w), winningTeam |-> w, players |-> Lineups[l]] :
        l \in 1..Len(Lineups), w \in {0, 1, 2}}

\* the fields of a match the claims name as required: a broken match lacks one of
\* them (for completionTimestamp: lacks it or holds a value that does not convert)
MatchFields == {"completionTimestamp", "players", "id", "winningTeam"}
ParticipantFields == {"pickOrder", "team", "captain"}

\* the match of players list 1 and outcome w without the field missing; the record
\* keeps the value the field would have had, which nothing reads
Broken(w, missing) ==
    [completionTimestamp |-> Timestamp(1, w), winningTeam |-> w, players |-> Lineups[1],
     missing |-> missing]

\* the broken matches of the input: a match with a winner lacking any one field,
\* and a tie lacking a field of its participants
BrokenGames ==
    {Broken(1, f) : f \in MatchFields \cup ParticipantFields}
        \cup {Broken(0, f) : f \in ParticipantFields}

\* datetime.fromtimestamp(ts / 1000, self.timezone).date()
DateOf(ts) == ts \div MsPerDay

Setting(dt, de, ua, ldt, da, gd, mdp, mgr, mgl, tx) ==
    [discard_ties |-> dt, decay_enabled |-> de, user_aliases |-> ua,
     last_days_threshold |-> ldt, decay_amount |-> da, grace_days |-> gd,
     max_decay_proportion |-> mdp, min_games_required |-> mgr,
     min_games_last_days |-> mgl, top_x |-> tx]

\* the settings of the runs: every combination of the settings process_game reads,
\* of those the decay pass reads, and of those display_ratings reads, each group
\* with the other two at one value
ProcessSettings ==
    {Setting(dt, de, ua, ldt, 1, 0, 8, 0, 0, 0) :
        dt \in BOOLEAN, de \in BOOLEAN, ua \in AliasConfigs, ldt \in {0, 1}}
DecaySettings ==
    {Setting(FALSE, TRUE, AliasOne, 1, da, gd, mdp, 0, 0, 0) :
        da \in {0, 1}, gd \in {0, 1}, mdp \in {6, 7, 8}}
DisplaySettings ==
    {Setting(FALSE, TRUE, AliasOne, ldt, 1, 0, 8, mgr, mgl, tx) :
        ldt \in {0, 1}, mgr \in {0, 3}, mgl \in {0, 1}, tx \in {0, 1}}
\* one run without aliases, where the players of a team are distinct Players
PlainSettings == {Setting(FALSE, TRUE, NoAliases, 1, 1, 0, 8, 0, 0, 0)}
Settings == ProcessSettings \cup DecaySettings \cup DisplaySettings \cup PlainSettings

-----------------------------------------------------------------------------
(* InputHandler *)

\* the settings validate_inputs tests that are integers of the environment, or a
\* float tested against 0 alone
CountSettings == {"min_games_required", "last_days_threshold", "min_games_last_days",
                  "top_x", "decay_amount", "grace_days"}

\* os.getenv of every setting: each count below, at and above 0,
\* max_decay_proportion (in eighths) below 0, at 0, at 1 and above 1, the TrueSkill
\* defaults below 0, at 0 and at the values of this model
Environments ==
    {counts @@ [max_decay_proportion |-> mdp, default_sigma |-> sigma0, default_mu |-> mu0] :
        counts \in [CountSettings -> {-1, 0, 1}], mdp \in {-1, 0, 8, 9},
        sigma0 \in {-1, 0, default_sigma}, mu0 \in {-1, 0, default_mu}}

\* the command-line arguments given: none, or --top_x with a value
Arguments == {<<>>} \cup {[top_x |-> x] : x \in {-1, 0, 1}}

Inputs == [args : Arguments, env : Environments]

\* the inputs of a run whose settings are given as they left set_handler
NoInputs == [args |-> <<>>, env |-> <<>>]

\* "self.args.x or int(os.getenv(X))": an argument that is absent or 0 gives way
\* to the environment
either(args, env, name) ==
    IF name \in DOMAIN args /\ args[name] # 0 THEN args[name] ELSE env[name]

\* InputHandler.set_handler up to validate_inputs: the settings tested
read_settings(in) ==
    [name \in DOMAIN in.env |-> either(in.args, in.env, name)]

\* the test of max_decay_proportion as it would be without its lower bound
at_most_one(proportion) == proportion <= 8

\* "0 <= self.max_decay_proportion <= 1", the proportion held in eighths
in_unit_range(proportion) == 0 <= proportion /\ proportion <= 8

\* InputHandler.validate_inputs on settings whose domain, server id and start
\* date are well-formed: whether one of its tests calls handle_error
validate_inputs(s) ==
    \/ s.min_games_required < 0
    \/ s.last_days_threshold < 0
    \/ s.min_games_last_days < 0
    \/ s.top_x < 0
    \/ s.decay_amount < 0
    \/ s.grace_days < 0
    \/ ~in_unit_range(s.max_decay_proportion)
    \/ s.default_sigma <= 0
    \/ s.default_mu <= 0

-----------------------------------------------------------------------------
(* Player *)

\* Player.__init__
Player(user_id, user_name, mu, sigma) ==
    [user_id |-> user_id, name |-> user_name, rating |-> [mu |-> mu, sigma |-> sigma],
     games_played |-> 0, wins |-> 0, losses |-> 0, last_played |-> None,
     secondary_ids |-> {}, total_pick_order |-> 0, pick_order_count |-> 0,
     avg_pick_order |-> 0, recent_games |-> 0]

\* Player.update_pick_order; the average is kept in hundredths
update_pick_order(player, pick_order) ==
    LET total == player.total_pick_order + pick_order
        count == player.pick_order_count + 1
    IN  [player EXCEPT !.total_pick_order = total,
                       !.pick_order_count = count,
                       !.avg_pick_order = (total * 100) \div count]

\* add_game as it would be if last_played took the date of every match in turn
add_game_latest_processed(player, is_win, current_date, is_recent_game) ==
    [player EXCEPT
        !.games_played = @ + 1,
        !.wins = IF is_win THEN @ + 1 ELSE @,
        !.losses = IF is_win THEN @ ELSE @ + 1,
        !.last_played = current_date,
        !.recent_games = IF is_recent_game THEN @ + 1 ELSE @]

\* add_game as it would be if it left last_played alone
add_game_without_date(player, is_win, current_date, is_recent_game) ==
    [player EXCEPT
        !.games_played = @ + 1,
        !.wins = IF is_win THEN @ + 1 ELSE @,
        !.losses = IF is_win THEN @ ELSE @ + 1,
        !.recent_games = IF is_recent_game THEN @ + 1 ELSE @]

\* Player.add_game
add_game(player, is_win, current_date, is_recent_game) ==
    [player EXCEPT
        !.games_played = @ + 1,
        !.wins = IF is_win THEN @ + 1 ELSE @,
        !.losses = IF is_win THEN @ ELSE @ + 1,
        !.last_played = IF @ = None \/ current_date > @ THEN current_date ELSE @,
        !.recent_games = IF is_recent_game THEN @ + 1 ELSE @]

\* default_sigma * max_decay_proportion, the proportion being held in eighths
sigma_cap(sigma0, max_decay_proportion) == (sigma0 * max_decay_proportion) \div 8

\* apply_sigma_decay as it would be without the min against max_sigma_increase
apply_sigma_decay_uncapped(player, decay_amount, max_decay_proportion, inactivity_days, sigma0) ==
    IF sigma_cap(sigma0, max_decay_proportion) - player.rating.sigma > 0
    THEN [player EXCEPT !.rating = [mu |-> player.rating.mu,
                                    sigma |-> player.rating.sigma
                                              + decay_amount * inactivity_days]]
    ELSE player

\* Player.apply_sigma_decay
apply_sigma_decay(player, decay_amount, max_decay_proportion, inactivity_days, sigma0) ==
    LET max_sigma_increase == sigma_cap(sigma0, max_decay_proportion) - player.rating.sigma
        total_decay == Min(decay_amount * inactivity_days, max_sigma_increase)
    IN  IF max_sigma_increase > 0
        THEN [player EXCEPT !.rating = [mu |-> player.rating.mu,
                                        sigma |-> player.rating.sigma + total_decay]]
        ELSE player

-----------------------------------------------------------------------------
(* GameProcessor: identities and the ledger *)

Keys(ratings) == {ratings[i].user_id : i \in 1..Len(ratings)}

\* the position of key user_id in the dict (the key of a Player is its user_id)
IndexOf(ratings, user_id) == CHOOSE i \in 1..Len(ratings) : ratings[i].user_id = user_id

\* the scan of user_aliases.items() in get_primary_id, from entry i on
RECURSIVE ScanAliases(_, _, _)
ScanAliases(user_aliases, user_id, i) ==
    IF i > Len(user_aliases) THEN user_id
    ELSE IF user_id \in Range(user_aliases[i].aliases) THEN user_aliases[i].primary
    ELSE ScanAliases(user_aliases, user_id, i + 1)

\* the miss as it would be if the cache took the raw id instead of the id found
cache_miss_keeps_raw(cache, user_id, primary_name) ==
    [id |-> primary_name, cache |-> cache @@ (user_id :> user_id)]

\* get_primary_id on a miss: cache the id found and return it
cache_miss(cache, user_id, primary_name) ==
    [id |-> primary_name, cache |-> cache @@ (user_id :> primary_name)]

\* GameProcessor.get_primary_id: the id returned and the cache left behind
get_primary_id(cache, user_aliases, user_id) ==
    IF user_id \in DOMAIN cache
    THEN [id |-> cache[user_id], cache |-> cache]
    ELSE cache_miss(cache, user_id, ScanAliases(user_aliases, user_id, 1))

\* get_player as it would be if the ledger were keyed by the raw id
player_of_raw_id(st, r, user_id, user_name) ==
    [id |-> user_id,
     st |-> [st EXCEPT
                !.primary_ids_cache = r.cache,
                !.player_ratings =
                    IF user_id \in Keys(@) THEN @
                    ELSE Append(@, Player(user_id, user_name, default_mu, default_sigma)),
                !.resolved = @ \cup {<<user_id, r.id>>}]]

\* get_player as it would be if an existing Player took the name of each appearance
player_of_renamed(st, r, user_id, user_name) ==
    [id |-> r.id,
     st |-> [st EXCEPT
                !.primary_ids_cache = r.cache,
                !.player_ratings =
                    IF r.id \in Keys(@)
                    THEN [i \in 1..Len(@) |->
                            IF @[i].user_id = r.id
                            THEN [@[i] EXCEPT !.name = user_name] ELSE @[i]]
                    ELSE Append(@, Player(r.id, user_name, default_mu, default_sigma)),
                !.resolved = @ \cup {<<user_id, r.id>>}]]

\* get_player once get_primary_id has returned r: create the Player if its key is new
player_of(st, r, user_id, user_name) ==
    [id |-> r.id,
     st |-> [st EXCEPT
                !.primary_ids_cache = r.cache,
                !.player_ratings =
                    IF r.id \in Keys(@) THEN @
                    ELSE Append(@, Player(r.id, user_name, default_mu, default_sigma)),
                !.resolved = @ \cup {<<user_id, r.id>>}]]

\* GameProcessor.get_player on the engine state st: the Player's key and the state
get_player(st, user_aliases, user_id, user_name) ==
    player_of(st, get_primary_id(st.primary_ids_cache, user_aliases, user_id),
              user_id, user_name)

\* trueskill.rate([winners, losers]) with default ranks: the first team has won.
\* The library is outside the repository; this stands for it: the winners' mean
\* rises, the losers' falls, everyone's uncertainty narrows.
rate(winners, losers) ==
    << [i \in 1..Len(winners) |->
            [mu |-> winners[i].mu + 2, sigma |-> Max(1, winners[i].sigma - 1)]],
       [i \in 1..Len(losers) |->
            [mu |-> losers[i].mu - 2, sigma |-> Max(1, losers[i].sigma - 1)]] >>

\* update_team_stats for the Player at position k of the ledger; src/main.py
\* passes is_win and counts the win or the loss here, src/process.py does not
team_stat(v, ratings, k, new_rating, is_win) ==
    IF v = "main"
    THEN [ratings EXCEPT ![k].rating = new_rating,
                         ![k].wins = IF is_win THEN @ + 1 ELSE @,
                         ![k].losses = IF is_win THEN @ ELSE @ + 1]
    ELSE [ratings EXCEPT ![k].rating = new_rating]

\* GameProcessor.update_team_stats, from position i of team_ids on
RECURSIVE update_team_stats(_, _, _, _, _, _)
update_team_stats(v, ratings, team_ids, new_ratings, is_win, i) ==
    IF i > Len(team_ids) THEN ratings
    ELSE update_team_stats(v,
            team_stat(v, ratings, IndexOf(ratings, team_ids[i]), new_ratings[i], is_win),
            team_ids, new_ratings, is_win, i + 1)

\* update_ratings once rate has returned: the winners' stats, then the losers'
store_ratings(v, ratings, winner_ids, loser_ids, new) ==
    update_team_stats(v, update_team_stats(v, ratings, winner_ids, new[1], TRUE, 1),
                      loser_ids, new[2], FALSE, 1)

\* update_ratings as it would be if team 1 always took the winner position
update_ratings_team1_first(v, ratings, team1, team1_ids, team2, team2_ids, winning_team) ==
    store_ratings(v, ratings, team1_ids, team2_ids, rate(team1, team2))

\* GameProcessor.update_ratings
update_ratings(v, ratings, team1, team1_ids, team2, team2_ids, winning_team) ==
    IF winning_team = 1
    THEN store_ratings(v, ratings, team1_ids, team2_ids, rate(team1, team2))
    ELSE store_ratings(v, ratings, team2_ids, team1_ids, rate(team2, team1))

-----------------------------------------------------------------------------
(* GameProcessor.process_game *)

\* the engine state the methods below read and write
Engine == [player_ratings |-> player_ratings, primary_ids_cache |-> primary_ids_cache,
           resolved |-> resolved, games_used_count |-> games_used_count,
           played_dates |-> played_dates]

NoTeams == [team1 |-> <<>>, team2 |-> <<>>, team1_ids |-> <<>>, team2_ids |-> <<>>]

\* the loop body as it would be if a captain's pick order were folded in too
pick_and_tag_captains_too(played, player_data) ==
    [update_pick_order(played,
         IF player_data.pickOrder # None THEN player_data.pickOrder ELSE 0)
     EXCEPT !.secondary_ids = @ \cup {player_data.id}]

\* the pick order of a participant who is no captain (None counts 0), and the raw id
pick_and_tag(played, player_data) ==
    [(IF player_data.captain = 0
      THEN update_pick_order(played,
               IF player_data.pickOrder # None THEN player_data.pickOrder ELSE 0)
      ELSE played)
     EXCEPT !.secondary_ids = @ \cup {player_data.id}]

\* what the loop body does to the participant's Player
appearance(player, cfg, game, current_date, player_data) ==
    pick_and_tag(add_game(player,
                          game.winningTeam = player_data.team,
                          current_date,
                          current_date >= now_date - cfg.last_days_threshold),
                 player_data)

\* team1/team2 and team1_ids/team2_ids after the participant is appended
team_append(teams, team, player) ==
    IF team = 1
    THEN [teams EXCEPT !.team1 = Append(@, player.rating),
                       !.team1_ids = Append(@, player.user_id)]
    ELSE [teams EXCEPT !.team2 = Append(@, player.rating),
                       !.team2_ids = Append(@, player.user_id)]

\* the loop body once the Player at position k has become player
step_result(st, k, player, teams, team) ==
    [st |-> [st EXCEPT !.player_ratings[k] = player],
     teams |-> team_append(teams, team, player)]

\* the loop body once get_player has returned got
with_player(got, teams, cfg, game, current_date, player_data) ==
    step_result(got.st, IndexOf(got.st.player_ratings, got.id),
                appearance(got.st.player_ratings[IndexOf(got.st.player_ratings, got.id)],
                           cfg, game, current_date, player_data),
                teams, player_data.team)

\* the body of "for player_data in game['players']" for one participant
player_step(st, teams, cfg, game, current_date, player_data) ==
    with_player(get_player(st, cfg.user_aliases, player_data.id, player_data.name),
                teams, cfg, game, current_date, player_data)

\* the loop over game['players'], from participant i on; s is [st, teams]
RECURSIVE players_loop(_, _, _, _, _)
players_loop(s, cfg, game, current_date, i) ==
    IF i > Len(game.players) THEN s
    ELSE players_loop(player_step(s.st, s.teams, cfg, game, current_date,
                                  game.players[i]),
                      cfg, game, current_date, i + 1)

\* played_dates after the raw ids of the match are added under its date
register_date(dates, current_date, players) ==
    [d \in DOMAIN dates \cup {current_date} |->
        (IF d \in DOMAIN dates THEN dates[d] ELSE {})
        \cup (IF d = current_date
              THEN {players[i].id : i \in 1..Len(players)} ELSE {})]

\* process_game up to the tie test: the date of the match and its participants
register_game(st, game) ==
    [st EXCEPT !.played_dates =
        register_date(@, DateOf(game.completionTimestamp), game.players)]

\* process_game from the end of the loop: update_ratings
rate_game(v, looped, winning_team) ==
    [looped.st EXCEPT !.player_ratings =
        update_ratings(v, @, looped.teams.team1, looped.teams.team1_ids,
                       looped.teams.team2, looped.teams.team2_ids, winning_team)]

\* process_game as it would be without the discard_ties test
process_game_keeps_ties(v, cfg, st, game) ==
    rate_game(v,
        players_loop([st |-> [register_game(st, game) EXCEPT !.games_used_count = @ + 1],
                      teams |-> NoTeams],
                     cfg, game, DateOf(game.completionTimestamp), 1),
        game.winningTeam)

\* process_game as it would be if the counter were raised before the tie test
process_game_counts_ties(v, cfg, st, game) ==
    IF cfg.discard_ties /\ game.winningTeam = 0
    THEN [register_game(st, game) EXCEPT !.games_used_count = @ + 1]
    ELSE rate_game(v,
            players_loop([st |-> [register_game(st, game) EXCEPT !.games_used_count = @ + 1],
                          teams |-> NoTeams],
                         cfg, game, DateOf(game.completionTimestamp), 1),
            game.winningTeam)

\* GameProcessor.process_game on a well-formed match
process_game(v, cfg, st, game) ==
    IF cfg.discard_ties /\ game.winningTeam = 0
    THEN register_game(st, game)
    ELSE rate_game(v,
            players_loop([st |-> [register_game(st, game) EXCEPT !.games_used_count = @ + 1],
                          teams |-> NoTeams],
                         cfg, game, DateOf(game.completionTimestamp), 1),
            game.winningTeam)

\* handle_error as it would be if it printed the error and returned
handle_error_and_go_on(msg) == "process"

\* shared.handle_error: print and sys.exit(1); the position of run() afterwards
handle_error(msg) == "aborted"

\* whether process_game reaches one of its handle_error calls on game: the date
\* conversion, game['players'] and player['user']['id'], game['winningTeam'] come
\* before the tie test; pickOrder, team and captain are read in the loop behind it
reaches_handle_error(cfg, game) ==
    /\ "missing" \in DOMAIN game
    /\ \/ game.missing \in MatchFields
       \/ ~(cfg.discard_ties /\ game.winningTeam = 0)

-----------------------------------------------------------------------------
(* GameProcessor.apply_decay *)

\* sorted(played_dates.keys())
RECURSIVE SortedDates(_)
SortedDates(S) ==
    IF S = {} THEN <<>>
    ELSE LET m == CHOOSE x \in S : \A y \in S : x <= y
         IN  <<m>> \o SortedDates(S \ {m})

\* the evaluation as it would be if exactly grace_days inactive days decayed too
decay_from_grace_days(player, cfg, days_inactive) ==
    IF days_inactive >= cfg.grace_days
    THEN apply_sigma_decay(player, cfg.decay_amount, cfg.max_decay_proportion,
                           days_inactive, default_sigma)
    ELSE player

\* the evaluation as it would be if every checkpoint without the player counted
\* as a day of inactivity, whenever the player last played
decay_at_every_checkpoint(player, cfg, days_inactive) ==
    apply_sigma_decay(player, cfg.decay_amount, cfg.max_decay_proportion, 1, default_sigma)

\* "if days_inactive > self.grace_days: ...apply_sigma_decay(...)"
decay_past_grace(player, cfg, days_inactive) ==
    IF days_inactive > cfg.grace_days
    THEN apply_sigma_decay(player, cfg.decay_amount, cfg.max_decay_proportion,
                           days_inactive, default_sigma)
    ELSE player

\* the body of "for player_id in self.player_ratings" for the key at position i, at
\* checkpoint date; d is [st, log, crashed].  self.player_ratings[primary_id] raises
\* KeyError when primary_id is no key of the ledger, and nothing catches it.  The
\* log takes every evaluation: the Player before and after, and days_inactive.
decay_step(cfg, d, date, participants, i) ==
    LET player_id == d.st.player_ratings[i].user_id
        r == get_primary_id(d.st.primary_ids_cache, cfg.user_aliases, player_id)
        st1 == [d.st EXCEPT !.primary_ids_cache = r.cache,
                            !.resolved = @ \cup {<<player_id, r.id>>}]
    IN  IF r.id \in participants THEN [d EXCEPT !.st = st1]
        ELSE IF r.id \notin Keys(st1.player_ratings)
        THEN [d EXCEPT !.st = st1, !.crashed = TRUE]
        ELSE LET k == IndexOf(st1.player_ratings, r.id)
                 before == st1.player_ratings[k]
                 days_inactive == date - before.last_played
                 after == decay_past_grace(before, cfg, days_inactive)
             IN  [d EXCEPT !.st = [st1 EXCEPT !.player_ratings[k] = after],
                           !.log = Append(@, [date |-> date, key |-> player_id,
                                              days_inactive |-> days_inactive,
                                              before |-> before, after |-> after])]

\* the loop over the ledger at one checkpoint, from position i on
RECURSIVE decay_players(_, _, _, _, _)
decay_players(cfg, d, date, participants, i) ==
    IF d.crashed \/ i > Len(d.st.player_ratings) THEN d
    ELSE decay_players(cfg, decay_step(cfg, d, date, participants, i),
                       date, participants, i + 1)

\* the test as it would be if the first date were a checkpoint like the others
previous_date_or_first(j) == j >= 1

\* "if previous_date:" at position j of the sorted dates: the first has none
previous_date(j) == j > 1

\* the loop over sorted(played_dates.keys()), from position j on
RECURSIVE decay_dates(_, _, _, _)
decay_dates(cfg, d, dates, j) ==
    IF d.crashed \/ j > Len(dates) THEN d
    ELSE decay_dates(cfg,
            IF previous_date(j)
            THEN decay_players(cfg, d, dates[j], d.st.played_dates[dates[j]], 1)
            ELSE d,
            dates, j + 1)

\* GameProcessor.apply_decay
apply_decay(cfg, st) ==
    decay_dates(cfg, [st |-> st, log |-> <<>>, crashed |-> FALSE],
                SortedDates(DOMAIN st.played_dates), 1)

-----------------------------------------------------------------------------
(* display_ratings *)

\* the sort key: rating.mu - 3 * rating.sigma
Score(player) == player.rating.mu - 3 * player.rating.sigma

\* the sort as it would be without reverse=True
InsertByScoreAscending(sorted, p) ==
    LET n == Cardinality({i \in 1..Len(sorted) : Score(sorted[i]) <= Score(p)})
    IN  SubSeq(sorted, 1, n) \o <<p>> \o SubSeq(sorted, n + 1, Len(sorted))

\* the sort as it would be if it put an element before those of equal key
InsertBeforeEqualScores(sorted, p) ==
    LET n == Cardinality({i \in 1..Len(sorted) : Score(sorted[i]) > Score(p)})
    IN  SubSeq(sorted, 1, n) \o <<p>> \o SubSeq(sorted, n + 1, Len(sorted))

\* sorted(..., key=Score, reverse=True) is stable: p goes behind every element
\* whose key is not below its own
InsertByScore(sorted, p) ==
    LET n == Cardinality({i \in 1..Len(sorted) : Score(sorted[i]) >= Score(p)})
    IN  SubSeq(sorted, 1, n) \o <<p>> \o SubSeq(sorted, n + 1, Len(sorted))

RECURSIVE SortByScore(_, _)
SortByScore(players, n) ==
    IF n = 0 THEN <<>> ELSE InsertByScore(SortByScore(players, n - 1), players[n])

\* one row of the table; user_id is the ledger key the row was made from (the
\* source keeps it beside the Player in sorted_players)
Row(rank, player) ==
    [rank |-> rank, user_id |-> player.user_id, display_name |-> player.name,
     score |-> Score(player), mu |-> player.rating.mu, sigma |-> player.rating.sigma,
     games_played |-> player.games_played, wins |-> player.wins,
     losses |-> player.losses, last_played |-> player.last_played,
     avg_pick_order |-> player.avg_pick_order, associated_ids |-> player.secondary_ids]

\* whether the min_games_last_days stage runs: src/output.py nests it in the
\* last_days_threshold branch, src/main.py does not
recent_stage(v, cfg) ==
    IF v = "process"
    THEN cfg.last_days_threshold > 0 /\ cfg.min_games_last_days > 0
    ELSE cfg.min_games_last_days > 0

\* the first stage as it would be with > for >=
more_than_min_games(player, cfg) == player.games_played > cfg.min_games_required

\* the first stage keeps a player with games_played >= min_games_required
enough_games(player, cfg) == player.games_played >= cfg.min_games_required

\* cutoff_count as it would be without max(0, ...)
cutoff_unclamped(sorted_players, top_x) ==
    IF top_x > 0 THEN Len(sorted_players) - top_x ELSE 0

\* cutoff_count: the number of players below the cutoff
cutoff(sorted_players, top_x) ==
    IF top_x > 0 THEN Max(0, Len(sorted_players) - top_x) ELSE 0

\* the slice as it would be if it kept one player more than top_x
top_players_and_next(sorted_players, top_x) ==
    IF top_x > 0
    THEN SubSeq(sorted_players, 1, Min(top_x + 1, Len(sorted_players)))
    ELSE sorted_players

\* sorted_players[:top_x] when top_x > 0
top_players(sorted_players, top_x) ==
    IF top_x > 0
    THEN SubSeq(sorted_players, 1, Min(top_x, Len(sorted_players)))
    ELSE sorted_players

\* enumerate(sorted_players, start=1): the rows
ranked(shown) == [i \in 1..Len(shown) |-> Row(i, shown[i])]

\* display_ratings from the sort on
sort_and_cut(by_recent, cfg) ==
    [cutoff_count |-> cutoff(SortByScore(by_recent, Len(by_recent)), cfg.top_x),
     rows |-> ranked(top_players(SortByScore(by_recent, Len(by_recent)), cfg.top_x))]

\* the min_games_last_days stage on the survivors by_days of the stage before
third_stage(v, cfg, by_days) ==
    IF recent_stage(v, cfg)
    THEN SelectSeq(by_days, LAMBDA p : p.recent_games >= cfg.min_games_last_days)
    ELSE by_days

\* the last_days_threshold stage on the survivors by_games of the first stage
second_stage(cfg, by_games) ==
    IF cfg.last_days_threshold > 0
    THEN SelectSeq(by_games,
             LAMBDA p : p.last_played >= now_date - cfg.last_days_threshold)
    ELSE by_games

\* the first stage
first_stage(cfg, ratings) == SelectSeq(ratings, LAMBDA p : enough_games(p, cfg))

\* the three counters, given the survivors of each stage; a stage that does not
\* run leaves its counter as it was
count_filtered(v, cfg, counters, ratings, by_games, by_days, by_recent) ==
    [min_games |-> Len(ratings) - Len(by_games),
     last_days |-> IF cfg.last_days_threshold > 0
                   THEN Len(by_games) - Len(by_days) ELSE counters.last_days,
     min_games_last_days |-> IF recent_stage(v, cfg)
                             THEN Len(by_days) - Len(by_recent)
                             ELSE counters.min_games_last_days]

\* display_ratings up to the rows: the counters, the cutoff and the rows
display_ratings(v, cfg, ratings, counters) ==
    LET by_games == first_stage(cfg, ratings)
        by_days == second_stage(cfg, by_games)
        by_recent == third_stage(v, cfg, by_days)
        out == sort_and_cut(by_recent, cfg)
    IN  [filtered |-> count_filtered(v, cfg, counters, ratings, by_games, by_days,
                                     by_recent),
         cutoff_count |-> out.cutoff_count,
         rows |-> out.rows]

-----------------------------------------------------------------------------
(* The run *)

Init ==
    /\ variant \in {"process", "main"}
    /\ inputs = NoInputs
    /\ settings \in Settings
    /\ pc = "process"
    /\ processed = <<>>
    /\ player_ratings = <<>>
    /\ primary_ids_cache = <<>>
    /\ games_used_count = 0
    /\ played_dates = <<>>
    /\ resolved = {}
    /\ decay_calls = 0
    /\ decay_log = <<>>
    /\ filtered = [min_games |-> 0, last_days |-> 0, min_games_last_days |-> 0]
    /\ cutoff_count = 0
    /\ rows = <<>>

\* the fields of the engine state st written back
Store(st) ==
    /\ player_ratings' = st.player_ratings
    /\ primary_ids_cache' = st.primary_ids_cache
    /\ resolved' = st.resolved
    /\ games_used_count' = st.games_used_count
    /\ played_dates' = st.played_dates

\* run(): one turn of "for game in games"
ProcessGame ==
    /\ pc = "process"
    /\ Len(processed) < MaxGames
    /\ \E game \in Games :
        /\ processed' = Append(processed, game)
        /\ Store(process_game(variant, settings, Engine, game))
    /\ UNCHANGED <<variant, inputs, settings, pc, decay_calls, decay_log, filtered,
                   cutoff_count, rows>>

\* run(): one turn of "for game in games" on a broken match.  Where process_game
\* reaches handle_error the process exits: its objects are gone, the variables
\* keep the values they had before the match.
ProcessBrokenGame ==
    /\ pc = "process"
    /\ Len(processed) < MaxGames
    /\ \E game \in BrokenGames :
        /\ processed' = Append(processed, game)
        /\ IF reaches_handle_error(settings, game)
           THEN /\ pc' = handle_error("Failed to process game")
                /\ UNCHANGED <<player_ratings, primary_ids_cache, resolved,
                               games_used_count, played_dates>>
           ELSE /\ pc' = pc
                /\ Store(process_game(variant, settings, Engine, game))
    /\ UNCHANGED <<variant, inputs, settings, decay_calls, decay_log, filtered, cutoff_count,
                   rows>>

\* whether run() calls apply_decay once the matches are through: src/process.py
\* asks decay_enabled, src/main.py calls it always
decay_runs(v, cfg) == v = "main" \/ cfg.decay_enabled

\* run(): the input is exhausted and the decay pass runs
ApplyDecay ==
    /\ pc = "process"
    /\ decay_runs(variant, settings)
    /\ LET d == apply_decay(settings, Engine)
       IN  /\ player_ratings' = d.st.player_ratings
           /\ primary_ids_cache' = d.st.primary_ids_cache
           /\ resolved' = d.st.resolved
           /\ decay_log' = d.log
           /\ decay_calls' = decay_calls + 1
           /\ pc' = IF d.crashed THEN "crashed" ELSE "display"
    /\ UNCHANGED <<variant, inputs, settings, processed, games_used_count, played_dates,
                   filtered, cutoff_count, rows>>

\* run(): the input is exhausted and decay is off
SkipDecay ==
    /\ pc = "process"
    /\ ~decay_runs(variant, settings)
    /\ pc' = "display"
    /\ UNCHANGED <<variant, inputs, settings, processed, player_ratings, primary_ids_cache,
                   games_used_count, played_dates, resolved, decay_calls, decay_log,
                   filtered, cutoff_count, rows>>

\* run(): display_ratings
DisplayRatings ==
    /\ pc = "display"
    /\ LET out == display_ratings(variant, settings, player_ratings, filtered)
       IN  /\ filtered' = out.filtered
           /\ cutoff_count' = out.cutoff_count
           /\ rows' = out.rows
    /\ pc' = "done"
    /\ UNCHANGED <<variant, inputs, settings, processed, player_ratings, primary_ids_cache,
                   games_used_count, played_dates, resolved, decay_calls, decay_log>>

Next == ProcessGame \/ ProcessBrokenGame \/ ApplyDecay \/ SkipDecay \/ DisplayRatings

Spec == Init /\ [][Next]_vars

\* The start of the program alone: set_handler on every input

InitInput ==
    /\ variant = "process"
    /\ inputs \in Inputs
    /\ settings = <<>>
    /\ pc = "input"
    /\ processed = <<>>
    /\ player_ratings = <<>>
    /\ primary_ids_cache = <<>>
    /\ games_used_count = 0
    /\ played_dates = <<>>
    /\ resolved = {}
    /\ decay_calls = 0
    /\ decay_log = <<>>
    /\ filtered = [min_games |-> 0, last_days |-> 0, min_games_last_days |-> 0]
    /\ cutoff_count = 0
    /\ rows = <<>>

\* InputHandler.set_handler: read the settings, then validate_inputs
SetHandler ==
    /\ pc = "input"
    /\ settings' = read_settings(inputs)
    /\ pc' = IF validate_inputs(read_settings(inputs))
             THEN handle_error("invalid setting") ELSE "validated"
    /\ UNCHANGED <<variant, inputs, processed, player_ratings, primary_ids_cache,
                   games_used_count, played_dates, resolved, decay_calls, decay_log,
                   filtered, cutoff_count, rows>>

NextInput == SetHandler

SpecInput == InitInput /\ [][NextInput]_vars

-----------------------------------------------------------------------------
(* What the claims speak of *)

Last(seq) == seq[Len(seq)]

\* the canonical id of raw id x by the alias configuration alone: the primary
\* whose alias list holds x, x itself when no list holds it
CanonicalOf(x) ==
    LET ua == settings.user_aliases
        owners == {i \in 1..Len(ua) : x \in Range(ua[i].aliases)}
    IN  IF owners = {} THEN x ELSE ua[CHOOSE i \in owners : TRUE].primary

\* a match on which process_game reached handle_error
Failed(game) == reaches_handle_error(settings, game)

\* a match that counts: every match but a tie under discard_ties and a match
\* process_game failed on
Counted(game) == ~Failed(game) /\ ~(settings.discard_ties /\ game.winningTeam = 0)

\* the appearances <<match, participant>> of the processed matches
AllAppearances ==
    UNION {{<<i, j>> : j \in 1..Len(processed[i].players)} : i \in 1..Len(processed)}

\* the appearances in counted matches
Appearances == {a \in AllAppearances : Counted(processed[a[1]])}

RawOf(a) == processed[a[1]].players[a[2]].id

\* the appearances among A of the raw ids of canonical id k
Of(A, k) == {a \in A : CanonicalOf(RawOf(a)) = k}

MatchDate(a) == DateOf(processed[a[1]].completionTimestamp)

Before(a, b) == a[1] < b[1] \/ (a[1] = b[1] /\ a[2] < b[2])

Ledger == Range(player_ratings)

\* the step just taken was process_game on a tie that discard_ties discards
DiscardedTieStep ==
    /\ pc = "process"
    /\ Len(processed') = Len(processed) + 1
    /\ settings.discard_ties
    /\ Last(processed').winningTeam = 0

\* C1: after process_game on any prefix of the matches, every Player has
\* games_played = wins + losses
C1_GamesAreWinsPlusLosses ==
    \A p \in Ledger : p.games_played = p.wins + p.losses

\* C1 in the engine of src/process.py alone (the one whose update_team_stats
\* counts nothing)
C1_ProcessCopy ==
    variant = "process" => C1_GamesAreWinsPlusLosses

C1_Witness ==
    /\ variant = "process"
    /\ \E p \in Ledger : p.wins > 0 /\ p.losses > 0

\* C2: process_game on a tie under discard_ties leaves games_used_count and the
\* whole ledger as they were (no Player created, no field changed), and the raw id
\* of every participant is in played_dates under the date of the match
C2_DiscardedTieFrame ==
    [][DiscardedTieStep =>
        /\ games_used_count' = games_used_count
        /\ player_ratings' = player_ratings
        /\ LET game == Last(processed')
               date == DateOf(game.completionTimestamp)
           IN  /\ date \in DOMAIN played_dates'
               /\ \A i \in 1..Len(game.players) :
                    game.players[i].id \in played_dates'[date]]_vars

\* a tie was discarded on a day of its own, after a counted match put players
\* into the ledger
C2_Witness ==
    /\ settings.discard_ties
    /\ Len(processed) = 2
    /\ processed[1].winningTeam = 1
    /\ processed[2].winningTeam = 0
    /\ processed[2].completionTimestamp # processed[1].completionTimestamp
    /\ player_ratings # <<>>
    /\ games_used_count = 1

\* the step just taken was the decay pass
DecayStep == pc = "process" /\ pc' \in {"display", "crashed"} /\ decay_runs(variant, settings)

Cap == sigma_cap(default_sigma, settings.max_decay_proportion)

\* C3 for one change of a rating
DecayKeeps(before, after) ==
    /\ after.sigma >= before.sigma
    /\ after.mu = before.mu
    /\ before.sigma <= Cap => after.sigma <= Cap
    /\ before.sigma >= Cap => after.sigma = before.sigma

\* C3: every apply_sigma_decay call, and apply_decay as a whole for every player,
\* leaves mu alone, never lowers sigma, keeps a sigma that was within the cap
\* default_sigma * max_decay_proportion within it, and leaves a sigma at or above
\* the cap as it was
C3_DecayWidensWithinCap ==
    [][DecayStep =>
        /\ \A i \in 1..Len(decay_log') :
            DecayKeeps(decay_log'[i].before.rating, decay_log'[i].after.rating)
        /\ Len(player_ratings') = Len(player_ratings)
        /\ \A k \in 1..Len(player_ratings) :
            DecayKeeps(player_ratings[k].rating, player_ratings'[k].rating)]_vars

\* a decay that the cap cut short: the days would have given more
C3_Witness ==
    \E i \in 1..Len(decay_log) :
        LET e == decay_log[i]
        IN  /\ e.after.rating.sigma > e.before.rating.sigma
            /\ e.after.rating.sigma = Cap
            /\ settings.decay_amount * e.days_inactive > Cap - e.before.rating.sigma

\* C4: the rows carry the ranks 1..k in order, and the conservative score
\* mu - 3 * sigma never rises from one rank to the next
C4_RanksAndScoresDescend ==
    \A i \in 1..Len(rows) :
        /\ rows[i].rank = i
        /\ rows[i].score = rows[i].mu - 3 * rows[i].sigma
        /\ i < Len(rows) =>
            rows[i].mu - 3 * rows[i].sigma >= rows[i + 1].mu - 3 * rows[i + 1].sigma

\* two rows of different score, in the other order than the ledger holds them
C4_Witness ==
    /\ pc = "done"
    /\ Len(rows) = 2
    /\ Len(player_ratings) = 2
    /\ rows[1].score > rows[2].score
    /\ rows[1].user_id = player_ratings[2].user_id

\* C5: every get_primary_id call returns the canonical id of its argument by the
\* alias configuration, whatever was resolved before, and a cache entry, once
\* written, keeps its value
C5_ResolveIsStable ==
    [][/\ \A r \in resolved' : r[2] = CanonicalOf(r[1])
       /\ \A x \in DOMAIN primary_ids_cache :
            /\ x \in DOMAIN primary_ids_cache'
            /\ primary_ids_cache'[x] = primary_ids_cache[x]
            /\ primary_ids_cache[x] = CanonicalOf(x)]_vars

\* the alias "a" was resolved in two counted matches, the second time from the cache
C5_Witness ==
    /\ Len(processed) = 2
    /\ \A i \in 1..2 : Counted(processed[i])
    /\ \A i \in 1..2 : \E j \in 1..Len(processed[i].players) :
            processed[i].players[j].id = "a"
    /\ <<"a", "P">> \in resolved
    /\ primary_ids_cache["a"] = "P"

\* the canonical ids the raw ids of the input resolve to
Canonicals == {CanonicalOf(x) : x \in RawIds}

\* C6: the raw ids of one canonical id share one record, keyed by the canonical
\* id: it exists once some of them appeared in a counted match, its games_played
\* is the number of their appearances and its secondary_ids the raw ids that
\* appeared; the ledger has no other record
C6_OneRecordPerCanonicalId ==
    /\ Keys(player_ratings) \subseteq Canonicals
    /\ \A k \in Canonicals :
        LET mine == Of(Appearances, k)
            recs == {i \in 1..Len(player_ratings) : player_ratings[i].user_id = k}
        IN  IF mine = {} THEN recs = {}
            ELSE /\ Cardinality(recs) = 1
                 /\ \A i \in recs :
                        /\ player_ratings[i].games_played = Cardinality(mine)
                        /\ player_ratings[i].secondary_ids = {RawOf(a) : a \in mine}

\* "a" appeared in one counted match and "b" in another: one record "P" holds both
C6_Witness ==
    /\ Len(processed) = 2
    /\ \E a \in Of(Appearances, "P") : a[1] = 1 /\ RawOf(a) = "a"
    /\ \E a \in Of(Appearances, "P") : a[1] = 2 /\ RawOf(a) = "b"
    /\ \E p \in Ledger :
        p.user_id = "P" /\ {"a", "b"} \subseteq p.secondary_ids /\ p.games_played >= 2

\* the players that pass every stage that runs
Survivors ==
    {p \in Ledger :
        /\ p.games_played >= settings.min_games_required
        /\ settings.last_days_threshold > 0 =>
                p.last_played >= now_date - settings.last_days_threshold
        /\ recent_stage(variant, settings) =>
                p.recent_games >= settings.min_games_last_days}

Shown == {rows[i].user_id : i \in 1..Len(rows)}

\* C7: with n survivors, top_x > 0 gives min(n, top_x) rows, the best of the
\* survivors, and cutoff_count = max(0, n - top_x); top_x = 0 gives all n rows and
\* cutoff_count = 0
C7_TopXAndCutoff ==
    pc = "done" =>
        LET n == Cardinality(Survivors)
            top_x == settings.top_x
        IN  /\ Shown \subseteq {p.user_id : p \in Survivors}
            /\ Cardinality(Shown) = Len(rows)
            /\ IF top_x > 0
               THEN /\ Len(rows) = Min(n, top_x)
                    /\ cutoff_count = Max(0, n - top_x)
                    /\ \A p \in Survivors : p.user_id \notin Shown =>
                            \A i \in 1..Len(rows) : rows[i].score >= Score(p)
               ELSE /\ Len(rows) = n
                    /\ cutoff_count = 0

\* top_x = 1 with two survivors: one row, one player cut off
C7_Witness ==
    /\ pc = "done"
    /\ settings.top_x = 1
    /\ Cardinality(Survivors) = 2
    /\ Len(rows) = 1
    /\ cutoff_count = 1

\* C8: filtered_by_min_games is the number of ledger players with fewer than
\* min_games_required games, no such player has a row, and with the other stages
\* and the cutoff off the rows are exactly the players with enough games
C8_MinGamesStage ==
    pc = "done" =>
        LET few == {p \in Ledger : p.games_played < settings.min_games_required}
        IN  /\ filtered.min_games = Cardinality(few)
            /\ Shown \cap {p.user_id : p \in few} = {}
            /\ (settings.last_days_threshold = 0 /\ settings.min_games_last_days = 0
                    /\ settings.top_x = 0)
                => Shown = {p.user_id : p \in Ledger \ few}

\* the only player of the ledger has too few games: no row, one player filtered
C8_Witness ==
    /\ pc = "done"
    /\ Len(player_ratings) = 1
    /\ player_ratings[1].games_played < settings.min_games_required
    /\ rows = <<>>
    /\ filtered.min_games = 1

\* the latest date among the appearances A
MaxDate(A) == CHOOSE d \in {MatchDate(a) : a \in A} : \A a \in A : MatchDate(a) <= d

\* C9 as stated: last_played is the latest date among all the processed matches in
\* which a raw id of the player took part
C9_LastPlayedIsMaxOfAllMatches ==
    \A p \in Ledger : p.last_played = MaxDate(Of(AllAppearances, p.user_id))

\* C9, amended: last_played is the latest date among the counted matches (those
\* not discarded as ties) in which a raw id of the player took part, in whatever
\* order the matches came
C9_LastPlayedIsMaxOfCountedMatches ==
    \A p \in Ledger :
        /\ Of(Appearances, p.user_id) # {}
        /\ p.last_played = MaxDate(Of(Appearances, p.user_id))

\* an older match came after a newer one and last_played stayed at the newer date
C9_Witness ==
    /\ Len(processed) = 2
    /\ Counted(processed[1]) /\ Counted(processed[2])
    /\ processed[2].completionTimestamp < processed[1].completionTimestamp
    /\ \E p \in Ledger :
        /\ \E a \in Of(Appearances, p.user_id) : a[1] = 2
        /\ p.last_played = DateOf(processed[1].completionTimestamp)

\* the name the first appearance among A carries
FirstName(A) ==
    LET first == CHOOSE a \in A : \A b \in A : a = b \/ Before(a, b)
    IN  processed[first[1]].players[first[2]].name

\* C10: the name of a Player is the name of the first counted appearance of its
\* canonical id, at every point of the run: no later appearance, and neither the
\* decay pass nor display_ratings, changes it
C10_NameIsFirstName ==
    \A p \in Ledger :
        /\ Of(Appearances, p.user_id) # {}
        /\ p.name = FirstName(Of(Appearances, p.user_id))

\* the run is over and a Player still has its first name although a later
\* appearance of its canonical id carried another
C10_Witness ==
    /\ pc = "done"
    /\ \E p \in Ledger :
        \E a \in Of(Appearances, p.user_id) :
            processed[a[1]].players[a[2]].name # p.name

\* the step just taken was process_game on a match that counts
CountedStep ==
    /\ pc = "process"
    /\ pc' = "process"
    /\ Len(processed') = Len(processed) + 1
    /\ Counted(Last(processed'))

\* the wins and the losses of the Player of key k, 0 while k has no Player
WinsOf(ratings, k) == IF k \in Keys(ratings) THEN ratings[IndexOf(ratings, k)].wins ELSE 0
LossesOf(ratings, k) == IF k \in Keys(ratings) THEN ratings[IndexOf(ratings, k)].losses ELSE 0

\* the participants of game that resolve to k and are on team t
MembersOf(game, k, t) ==
    {j \in 1..Len(game.players) :
        CanonicalOf(game.players[j].id) = k /\ game.players[j].team = t}

\* the team that lost to winning_team
Opponent(winning_team) == IF winning_team = 1 THEN 2 ELSE 1

\* what C11 says of the counters of key k over the match game
WinsAndLossesStep(game, k) ==
    IF game.winningTeam = 0
    THEN /\ WinsOf(player_ratings', k) = WinsOf(player_ratings, k)
         /\ LossesOf(player_ratings', k) = LossesOf(player_ratings, k)
    ELSE /\ WinsOf(player_ratings', k) = WinsOf(player_ratings, k)
                + Cardinality(MembersOf(game, k, game.winningTeam))
         /\ LossesOf(player_ratings', k) = LossesOf(player_ratings, k)
                + Cardinality(MembersOf(game, k, Opponent(game.winningTeam)))

\* C11: a counted match adds one to wins for every participant of the winning
\* team and one to losses for every participant of the losing team, on the Player
\* the participant resolves to, and changes no other wins or losses
C11_WinsAndLossesPerMatch ==
    [][CountedStep => \A k \in Canonicals : WinsAndLossesStep(Last(processed'), k)]_vars

\* C11 in the engine of src/process.py for the matches that have a winner
C11_ProcessCopyWithWinner ==
    [][(CountedStep /\ variant = "process" /\ Last(processed').winningTeam # 0)
            => \A k \in Canonicals : WinsAndLossesStep(Last(processed'), k)]_vars

\* no Player's sigma changes over the step
SigmasKept ==
    /\ Len(player_ratings') = Len(player_ratings)
    /\ \A k \in 1..Len(player_ratings) :
        player_ratings'[k].rating.sigma = player_ratings[k].rating.sigma

\* what C12 says of one step of the run
DecayOnceAfterMatches ==
    /\ decay_calls' <= 1
    /\ decay_calls' # decay_calls =>
        /\ settings.decay_enabled
        /\ pc = "process" /\ pc' # "process" /\ pc' # "done"
        /\ rows = <<>> /\ rows' = <<>>
    /\ pc # "process" => processed' = processed
    /\ ~settings.decay_enabled =>
        /\ decay_log' = <<>>
        /\ processed' = processed => SigmasKept

\* C12: apply_decay is called at most once, when no further match is processed
\* and before display_ratings, and only with decay_enabled; with decay_enabled
\* false no step but process_game changes a sigma
C12_DecayOnceAfterMatchesIfEnabled ==
    [][DecayOnceAfterMatches]_vars

\* C12 in the run() of src/process.py
C12_ProcessCopy ==
    [][variant = "process" => DecayOnceAfterMatches]_vars

\* the step just taken was process_game reaching handle_error
FailedStep ==
    /\ pc = "process"
    /\ Len(processed') = Len(processed) + 1
    /\ Failed(Last(processed'))

\* C13: a match process_game fails on ends the run at once: the run is aborted
\* with no decay pass and no leaderboard, and an aborted run takes no further step
\* (no later match, no decay pass, no leaderboard); no run goes on past it
C13_FailedMatchAbortsRun ==
    [][/\ FailedStep =>
            /\ pc' = "aborted"
            /\ decay_calls' = 0 /\ decay_log' = <<>> /\ rows' = <<>>
       /\ pc = "aborted" => FALSE
       /\ pc' # "aborted" => \A i \in 1..Len(processed') : ~Failed(processed'[i])]_vars

\* the second match of the input lacked a field and the run was aborted after the
\* first had been processed
C13_Witness ==
    /\ pc = "aborted"
    /\ Len(processed) = 2
    /\ ~Failed(processed[1])
    /\ Failed(processed[2])
    /\ player_ratings # <<>>
    /\ rows = <<>>

\* a setting outside the range C14 gives for it
InvalidSetting(s) ==
    \/ \E name \in CountSettings : s[name] < 0
    \/ s.max_decay_proportion < 0 \/ s.max_decay_proportion > 8
    \/ s.default_sigma <= 0
    \/ s.default_mu <= 0

\* C14: set_handler ends in an aborted run exactly when a count setting is
\* negative, max_decay_proportion is outside [0, 1] or default_sigma or default_mu
\* is not positive, and no match has been processed by then
C14_InvalidSettingsAbort ==
    pc # "input" =>
        /\ pc = (IF InvalidSetting(settings) THEN "aborted" ELSE "validated")
        /\ processed = <<>> /\ player_ratings = <<>> /\ rows = <<>>

\* max_decay_proportion below 0 is the only invalid setting, --top_x was given,
\* and the run was aborted
C14_Witness ==
    /\ pc = "aborted"
    /\ settings.max_decay_proportion < 0
    /\ \A name \in CountSettings : settings[name] >= 0
    /\ settings.default_sigma > 0 /\ settings.default_mu > 0
    /\ "top_x" \in DOMAIN inputs.args
    /\ inputs.args.top_x # 0
    /\ settings.top_x = inputs.args.top_x

\* the step just taken was process_game, without failure, on a match with no winner
TieStep ==
    /\ pc = "process"
    /\ pc' = "process"
    /\ Len(processed') = Len(processed) + 1
    /\ Last(processed').winningTeam = 0

\* no rating moved over the step: every Player keeps its rating and a Player
\* created by the step has the default rating
RatingsKept ==
    /\ Len(player_ratings') >= Len(player_ratings)
    /\ \A k \in 1..Len(player_ratings) :
        player_ratings'[k].rating = player_ratings[k].rating
    /\ \A k \in (Len(player_ratings) + 1)..Len(player_ratings') :
        player_ratings'[k].rating = [mu |-> default_mu, sigma |-> default_sigma]

\* C15: a match with winningTeam 0 changes no rating, whether discard_ties is set
\* or not
C15_TiesAreNeverRated ==
    [][TieStep => RatingsKept]_vars

\* C15 for the runs with discard_ties set
C15_UnderDiscardTies ==
    [][(TieStep /\ settings.discard_ties) => RatingsKept]_vars

\* a raw id of the Player evaluated in log entry e is registered on the date of e
PlayedOnCheckpoint(e) ==
    \E x \in played_dates[e.date] : CanonicalOf(x) = e.before.user_id

\* C16, its second half: a Player with a raw id registered on a checkpoint date
\* gets no sigma increase at that checkpoint
C16_NoIncreaseOnDayPlayed ==
    \A i \in 1..Len(decay_log) :
        PlayedOnCheckpoint(decay_log[i]) =>
            decay_log[i].after.rating.sigma = decay_log[i].before.rating.sigma

\* C16: a Player is evaluated at a checkpoint only if none of its raw ids is
\* registered on that date, so a Player with a raw id registered there, be it
\* through a discarded tie, gets no sigma increase
C16_NoDecayOnDayPlayed ==
    /\ \A i \in 1..Len(decay_log) : ~PlayedOnCheckpoint(decay_log[i])
    /\ C16_NoIncreaseOnDayPlayed

\* C16 for the Players whose key is itself the raw id registered on the date
C16_OwnIdOnDayPlayed ==
    \A i \in 1..Len(decay_log) :
        decay_log[i].before.user_id \notin played_dates[decay_log[i].date]

\* the increase C17 gives a sigma after days_inactive days without a match
DecayIncrease(sigma, days_inactive) ==
    IF days_inactive <= settings.grace_days THEN 0
    ELSE IF Cap - sigma > 0
         THEN Min(settings.decay_amount * days_inactive, Cap - sigma)
         ELSE 0

\* the entries of log that evaluate the Player of key k, and the latest of them
\* before entry i
EntriesOf(log, k) == {i \in 1..Len(log) : log[i].before.user_id = k}
EarlierOf(log, k, i) == {j \in EntriesOf(log, k) : j < i}
Latest(S) == CHOOSE j \in S : \A h \in S : h <= j

\* the Player of key k goes through the entries of log that evaluate it, from
\* what it was (old) to what it is (new), and nothing else changes it
ThroughLog(log, k, old, new) ==
    /\ \A i \in EntriesOf(log, k) :
        log[i].before = (IF EarlierOf(log, k, i) = {} THEN old
                         ELSE log[Latest(EarlierOf(log, k, i))].after)
    /\ new = (IF EntriesOf(log, k) = {} THEN old ELSE log[Latest(EntriesOf(log, k))].after)

\* C17: every evaluation takes days_inactive = checkpoint - last_played and
\* changes the Player's sigma alone: by nothing within grace_days (exactly
\* grace_days included) or at or above the cap, by min(decay_amount *
\* days_inactive, cap - sigma) otherwise; the decay pass changes a Player through
\* its evaluations alone
C17_DecayAmountAfterGrace ==
    [][DecayStep =>
        /\ \A i \in 1..Len(decay_log') :
            LET e == decay_log'[i]
            IN  /\ e.days_inactive = e.date - e.before.last_played
                /\ e.after = [e.before EXCEPT !.rating.sigma =
                                @ + DecayIncrease(@, e.days_inactive)]
        /\ Len(player_ratings') = Len(player_ratings)
        /\ \A k \in 1..Len(player_ratings) :
            ThroughLog(decay_log', player_ratings[k].user_id,
                       player_ratings[k], player_ratings'[k])]_vars

\* a Player was evaluated after exactly grace_days > 0 days, below the cap and
\* with a positive decay_amount, and kept its sigma
C17_Witness ==
    \E i \in 1..Len(decay_log) :
        /\ settings.grace_days > 0
        /\ settings.decay_amount > 0
        /\ decay_log[i].days_inactive = settings.grace_days
        /\ decay_log[i].before.rating.sigma < Cap
        /\ decay_log[i].after = decay_log[i].before

\* the checkpoints C18 names: the dates of played_dates but the earliest
Checkpoints ==
    {d \in DOMAIN played_dates : \E e \in DOMAIN played_dates : e < d}

IdsOf(players) == {p.user_id : p \in players}

\* what C19 says of the leaderboard, the recent-games stage running whenever
\* min_games_last_days > 0
RecencyStages ==
    LET by_games == {p \in Ledger : p.games_played >= settings.min_games_required}
        by_days == IF settings.last_days_threshold > 0
                   THEN {p \in by_games :
                            p.last_played >= now_date - settings.last_days_threshold}
                   ELSE by_games
        by_recent == IF settings.min_games_last_days > 0
                     THEN {p \in by_days : p.recent_games >= settings.min_games_last_days}
                     ELSE by_days
    IN  /\ Shown \subseteq IdsOf(by_recent)
        /\ settings.top_x = 0 => Shown = IdsOf(by_recent)
        /\ filtered.last_days = Cardinality(by_games) - Cardinality(by_days)
        /\ filtered.min_games_last_days = Cardinality(by_days) - Cardinality(by_recent)

\* C19: the last-days stage runs exactly when last_days_threshold > 0 and keeps
\* the Players with last_played >= today - last_days_threshold; the recent-games
\* stage runs exactly when min_games_last_days > 0, whatever last_days_threshold,
\* and keeps the Players with recent_games >= min_games_last_days; each counter
\* is the number its stage removed (0 for a stage that does not run)
C19_RecencyStages ==
    pc = "done" => RecencyStages

\* C19 for the display_ratings of src/main.py
C19_MainCopy ==
    (pc = "done" /\ variant = "main") => RecencyStages

\* C19 for the display_ratings of src/output.py when last_days_threshold > 0
C19_OutputCopyWithThreshold ==
    (pc = "done" /\ variant = "process" /\ settings.last_days_threshold > 0)
        => RecencyStages

\* C20: of two rows with equal conservative score, the one whose Player was
\* inserted into the ledger first comes first
C20_EqualScoresKeepLedgerOrder ==
    pc = "done" =>
        \A i, j \in 1..Len(rows) :
            (i < j /\ rows[i].score = rows[j].score) =>
                IndexOf(player_ratings, rows[i].user_id)
                    < IndexOf(player_ratings, rows[j].user_id)

\* two Players whose ratings moved apart and back have equal scores and a row each
C20_Witness ==
    /\ pc = "done"
    /\ Len(rows) = 2
    /\ rows[1].score = rows[2].score
    /\ rows[1].games_played = 2
    /\ rows[1].user_id = player_ratings[1].user_id

\* the step just taken was process_game on a counted match that has a winner
WinnerStep == CountedStep /\ Last(processed').winningTeam # 0

\* the rating of key k before the step (a Player not yet created is created with
\* the default rating) and after it
RatingBefore(k) ==
    IF k \in Keys(player_ratings)
    THEN player_ratings[IndexOf(player_ratings, k)].rating
    ELSE [mu |-> default_mu, sigma |-> default_sigma]
RatingAfter(k) == player_ratings'[IndexOf(player_ratings', k)].rating

\* the participants of team t, as positions of game.players in order
RECURSIVE TeamPositions(_, _, _)
TeamPositions(game, t, j) ==
    IF j > Len(game.players) THEN <<>>
    ELSE (IF game.players[j].team = t THEN <<j>> ELSE <<>>)
            \o TeamPositions(game, t, j + 1)

\* the canonical id at position i of team t
TeamKey(game, t, i) == CanonicalOf(game.players[TeamPositions(game, t, 1)[i]].id)

\* the ratings of team t as they stood before the step, in participant order
TeamBefore(game, t) ==
    [i \in 1..Len(TeamPositions(game, t, 1)) |-> RatingBefore(TeamKey(game, t, i))]

\* what the update returns for team t when the winning team of game is passed in
\* the winner position, each team with its ratings from before the step
Returned(game, t) ==
    IF t = game.winningTeam
    THEN rate(TeamBefore(game, t), TeamBefore(game, Opponent(t)))[1]
    ELSE rate(TeamBefore(game, Opponent(t)), TeamBefore(game, t))[2]

\* the places <<team, position>> of game
Places(game) ==
    {<<t, i>> : t \in {1, 2}, i \in 1..Len(game.players)}
        \cap {pl \in {1, 2} \X (1..Len(game.players)) :
                pl[2] <= Len(TeamPositions(game, pl[1], 1))}

\* place b is stored after place a: the winners are stored before the losers, each
\* team in participant order
StoredAfter(game, a, b) ==
    \/ a[1] = game.winningTeam /\ b[1] # game.winningTeam
    \/ a[1] = b[1] /\ a[2] < b[2]

\* C21 as stated: after a counted match with a winner, the Player at every place
\* of either team has the rating the update returned for that place, the update
\* having received the ratings from before the match, in participant order, the
\* winning team first
C21_EveryPlaceHasItsReturnedRating ==
    [][WinnerStep =>
        LET game == Last(processed')
        IN  \A pl \in Places(game) :
                RatingAfter(TeamKey(game, pl[1], pl[2])) = Returned(game, pl[1])[pl[2]]]_vars

\* C21, amended: the same for every place but one whose canonical id is that of
\* a place stored later in the same match: a Player who fills several places
\* keeps the rating returned for the last of them, and a Player who did not take
\* part keeps its rating
C21_LastStoredPlaceHasItsReturnedRating ==
    [][WinnerStep =>
        LET game == Last(processed')
        IN  /\ \A pl \in Places(game) :
                (\A other \in Places(game) :
                    StoredAfter(game, pl, other) =>
                        TeamKey(game, other[1], other[2]) # TeamKey(game, pl[1], pl[2]))
                => RatingAfter(TeamKey(game, pl[1], pl[2])) = Returned(game, pl[1])[pl[2]]
            /\ \A k \in Keys(player_ratings) :
                (\A pl \in Places(game) : TeamKey(game, pl[1], pl[2]) # k)
                => RatingAfter(k) = RatingBefore(k)]_vars

\* two matches without aliases: the second was won by team 2 and had two distinct
\* Players of different rating on team 1
C21_Witness ==
    /\ pc = "process"
    /\ Len(processed) = 2
    /\ settings.user_aliases = NoAliases
    /\ processed[2].winningTeam = 2
    /\ \E p, q \in Ledger :
        /\ p.user_id = "P" /\ q.user_id = "b"
        /\ p.games_played = 1 /\ q.games_played = 2
        /\ p.rating # q.rating

\* the pick order appearance a carries, a null one counting 0
PickOf(a) ==
    LET pick == processed[a[1]].players[a[2]].pickOrder
    IN  IF pick = None THEN 0 ELSE pick

RECURSIVE SumOfPicks(_)
SumOfPicks(A) ==
    IF A = {} THEN 0
    ELSE LET a == CHOOSE x \in A : TRUE
         IN  PickOf(a) + SumOfPicks(A \ {a})

\* C22: total_pick_order is the sum of the pick orders of the player's counted
\* appearances as no captain (null counting 0), pick_order_count their number,
\* avg_pick_order their quotient (in hundredths) once there is one, and 0 before;
\* appearances as captain add nothing
C22_PickOrderOfNonCaptainAppearances ==
    \A p \in Ledger :
        LET picked == {a \in Of(Appearances, p.user_id) :
                            processed[a[1]].players[a[2]].captain = 0}
        IN  /\ p.total_pick_order = SumOfPicks(picked)
            /\ p.pick_order_count = Cardinality(picked)
            /\ p.avg_pick_order =
                  (IF p.pick_order_count > 0
                   THEN (p.total_pick_order * 100) \div p.pick_order_count ELSE 0)

\* a Player with an appearance as captain, one with a null pick order and one
\* with pick order 1
C22_Witness ==
    \E p \in Ledger :
        /\ p.games_played = 3
        /\ p.pick_order_count = 2
        /\ p.total_pick_order = 1
        /\ p.avg_pick_order = 50

\* the matches among games that count
CountedAmong(games) == {i \in 1..Len(games) : Counted(games[i])}

\* C23: games_used_count is the number of processed matches that were not
\* discarded as ties; a counted match raises it by exactly 1 and no step lowers it
C23_GamesUsedCountsCountedMatches ==
    [][/\ games_used_count = Cardinality(CountedAmong(processed))
       /\ games_used_count' = Cardinality(CountedAmong(processed'))
       /\ games_used_count' >= games_used_count
       /\ CountedStep => games_used_count' = games_used_count + 1]_vars

\* a tie was discarded, then a match won by team 2 was counted
C23_Witness ==
    /\ settings.discard_ties
    /\ Len(processed) = 2
    /\ processed[1].winningTeam = 0
    /\ processed[2].winningTeam = 2
    /\ ~Failed(processed[2])
    /\ games_used_count = 1

\* C24: after display_ratings the three filter counters, cutoff_count and the
\* number of rows add up to the size of the ledger
C24_EveryPlayerAccountedOnce ==
    pc = "done" =>
        Len(player_ratings) =
            filtered.min_games + filtered.last_days + filtered.min_games_last_days
                + cutoff_count + Len(rows)

\* two Players with top_x = 1: one has a row, the other was removed by a filter
\* or by the cutoff
C24_Witness ==
    /\ pc = "done"
    /\ settings.top_x = 1
    /\ Len(player_ratings) = 2
    /\ Len(rows) = 1
    /\ filtered.last_days + cutoff_count = 1

\* the raw ids registered in played_dates
Registered == UNION {played_dates[d] : d \in DOMAIN played_dates}

\* C25: the ledger holds a record for exactly the canonical ids with a counted
\* appearance (so none for a participant of discarded ties alone, and none is
\* ever deleted); every record has games_played >= 1 and a last_played, and so
\* has every Player the decay pass evaluated and every row of the leaderboard
C25_RecordsHavePlayed ==
    /\ Keys(player_ratings) = {CanonicalOf(RawOf(a)) : a \in Appearances}
    /\ \A p \in Ledger : p.games_played >= 1 /\ p.last_played # None
    /\ \A i \in 1..Len(decay_log) : decay_log[i].before.last_played # None
    /\ \A i \in 1..Len(rows) : rows[i].last_played # None

\* "c" took part in a discarded tie alone and has no record; the decay pass and
\* display_ratings ran over the other Players
C25_Witness ==
    /\ pc = "done"
    /\ "c" \in Registered
    /\ "c" \notin Keys(player_ratings)
    /\ decay_log # <<>>
    /\ rows # <<>>

\* what C26 says of a run whose decay pass has run
KeysAreTheirOwnPrimary ==
    decay_calls > 0 =>
        /\ pc # "crashed"
        /\ \A k \in Keys(player_ratings) : CanonicalOf(k) = k
        /\ \A r \in resolved : r[1] \in Keys(player_ratings) => r[2] = r[1]
        /\ \A i \in 1..Len(decay_log) : decay_log[i].before.user_id = decay_log[i].key

\* C26: in apply_decay get_primary_id maps every ledger key to itself, so the
\* lookup player_ratings[get_primary_id(k)] never fails and every evaluation made
\* for key k is of the record of k, under every alias configuration
C26_LedgerKeysResolveToThemselves ==
    KeysAreTheirOwnPrimary

\* C26 for the alias configurations in which no canonical id is listed as a
\* secondary id
C26_WithoutAliasedCanonicalIds ==
    settings.user_aliases # AliasChain => KeysAreTheirOwnPrimary

\* the date of the last counted match of key k, and the latest date of the timeline
LastCountedMatch(k) == MaxDate(Of(Appearances, k))
LatestDate == CHOOSE d \in DOMAIN played_dates : \A e \in DOMAIN played_dates : e <= d

====
